---- MODULE Spec2Model ----
(***************************************************************************)
(* A model of slog::log_store (src/core/include/logstore.h): the dual-tail *)
(* append protocol, get, search, delete_record and update_record, with one *)
(* step per access to shared memory.                                       *)
(*                                                                         *)
(* The tail words are packed integers, as in the code, with the two halves *)
(* scaled from 32 bits to OFF_BITS bits each.  The offset table, the       *)
(* delete table and the n-gram index live in kvmap.h and ngram_idx.h,      *)
(* which are not part of the sources at hand; they are modelled from the   *)
(* specification (sections 4.2 and 4.3).                                   *)
(*                                                                         *)
(* The versioned aggregate (src/unnamed/part_000) is modelled beside it:   *)
(* the per-thread chains, seq_update, comb_update and get, with the sum    *)
(* aggregator of the specification (aggregate_ops.h is not at hand).       *)
(***************************************************************************)
EXTENDS Integers, Sequences, FiniteSets, TLC

\* ---------------------------------------------------------------- bounds
OFF_BITS == 5          \* width of each half of a tail word (32 in the code)
MAX_KEYS == 3          \* template parameter MAX_KEYS
LOG_SIZE == 8          \* template parameter LOG_SIZE
NumProcs == 2          \* threads calling into the store
MaxOps   == 3          \* calls of append/update_record/delete_record
MaxReads == 1          \* calls of get/search
MAX_CONCURRENCY == 2   \* thread_manager::get_max_concurrency()
MaxUpdates == 3        \* calls of seq_update/comb_update
MaxVersion == 2        \* versions run over 0 .. MaxVersion

\* ------------------------------------------------------------- constants
NGRAM_N  == 3
DEL_INCR == 1

WORD     == 2 ^ OFF_BITS            \* 2^32 in the code
TAIL_MOD == WORD * WORD             \* 2^64 in the code
OFF_MASK == WORD - 1                \* 0xFFFFFFFF
KEY_INCR == WORD                    \* 1ULL << 32

Procs == 1 .. NumProcs
Bytes == {"a", "b"}
NUL   == "0"
JUNK  == "?"           \* an unwritten byte of data_log_, or its value when read
UNSET == -1            \* a table slot no writer has set yet

\* What a read of a slot that was never written may return.
UNINIT == {0, 1, OFF_MASK}

Tuples(n) == [1 .. n -> Bytes]

\* ------------------------------------------------------------- variables
VARIABLES
  write_tail,      \* std::atomic<uint64_t> write_tail_
  read_tail,       \* std::atomic<uint64_t> read_tail_
  data_log,        \* char *data_log_
  value_offsets,   \* value_offset_list *value_offsets_
  deleted,         \* deleted_offsets *deleted_
  index_log,       \* ngram_index *index_log_
  th,              \* per thread: the running call, its locals and its position
  hist,            \* history: the claims on write_tail, in fetch-and-add order
  wl,              \* the workload: values, keys and queries the callers pass
  nops,            \* number of writing calls started
  nreads,          \* number of reading calls started
  aggs,            \* aggregate_list *aggs_: per thread id, the chain from head_
  rd,              \* the running call of aggregate::get and its locals
  nupd,            \* number of seq_update/comb_update calls made
  args             \* history: per chain, the value each update passed

vars == <<write_tail, read_tail, data_log, value_offsets, deleted, index_log,
          th, hist, wl, nops, nreads, aggs, rd, nupd, args>>

\* The state of the versioned aggregate (src/unnamed/part_000).
aggvars == <<aggs, rd, nupd, args>>

shared == <<write_tail, read_tail, data_log, value_offsets, deleted, index_log>>

\* ------------------------------------------------------- tail arithmetic
KeyOf(tail) == tail \div WORD        \* tail >> 32
OffOf(tail) == tail % WORD           \* tail & 0xFFFFFFFF

RECURSIVE BitAnd(_, _)
BitAnd(a, b) ==
  IF a = 0 \/ b = 0 THEN 0
  ELSE (a % 2) * (b % 2) + 2 * BitAnd(a \div 2, b \div 2)

\* A mutant of increment_tail: the length is left out of the increment.
increment_tail_nolen(value_length) == KEY_INCR

increment_tail(value_length) == KEY_INCR + value_length

\* The value atomic_fetch_add stores; the call returns the old write_tail.
atomic_advance_write_tail(tail_increment) ==
  (write_tail + tail_increment) % TAIL_MOD

\* ------------------------------------------------------------ the tables
\* deleted_->get(k), value_offsets_->get(k): a slot that was never set, or
\* that lies outside the table, holds an indeterminate value.
ReadSlot(tab, k) ==
  IF k \in DOMAIN tab /\ tab[k] # UNSET THEN {tab[k]} ELSE UNINIT

SetSlot(tab, k, v) ==
  IF k \in DOMAIN tab THEN [tab EXCEPT ![k] = v] ELSE tab

\* ------------------------------------------------------------- the bytes
\* The bytes a read of data_log_[pos] may return.
ReadByte(pos) ==
  IF pos \in DOMAIN data_log /\ data_log[pos] # JUNK
  THEN {data_log[pos]} ELSE {JUNK, NUL}

\* memcpy(data_log_ + off, value.c_str(), len)
Memcpy(log, off, value) ==
  [pos \in DOMAIN log |->
     IF pos >= off /\ pos < off + Len(value) THEN value[pos - off + 1]
     ELSE log[pos]]

\* The N bytes at data_log_ + pos, as ngram_index::add_offset reads them.
GramAt(log, pos) == [j \in 1 .. NGRAM_N |-> log[pos + j - 1]]

\* for (i = value_offset; i <= value_end - NGRAM_N; i++) add_offset(...)
\* with the loop bound computed in uint32_t.
LastGramPos(value_end) == (value_end - NGRAM_N) % WORD

\* Positions whose gram would reach past the end of the log are left out.
RECURSIVE AddOffsets(_, _, _, _)
AddOffsets(idx, log, i, last) ==
  IF i > last \/ i + NGRAM_N > LOG_SIZE THEN idx
  ELSE LET g == GramAt(log, i) IN
       AddOffsets(IF g \in DOMAIN idx
                  THEN [idx EXCEPT ![g] = Append(@, i)] ELSE idx,
                  log, i + 1, last)

\* The positions for which the loop calls add_offset; those whose gram
\* would be read from beyond the end of data_log_ are left out.
PostedPositions(i, last) == { j \in i .. last : j + NGRAM_N <= LOG_SIZE }

\* --------------------------------------------------------------- threads
NoPre == [com |-> {}, del |-> {}, upd |-> {}, app |-> {}]

Idle == [pc |-> "idle", op |-> "none", key |-> 0, val |-> <<>>, tail |-> 0,
         exp |-> 0, inc |-> 0, hid |-> 0, br |-> "none", size |-> 0, i |-> 0,
         ok |-> FALSE, out |-> <<>>, keys |-> {}, pre |-> NoPre]

HistIdx == 1 .. Len(hist)

\* Threads are interchangeable: a call is issued on the idle thread of least
\* index.
CanStart(p) ==
  /\ th[p].pc = "idle"
  /\ \A q \in Procs : q < p => th[q].pc # "idle"

Finish(h, st, ok) == [hist EXCEPT ![h].st = st, ![h].ok = ok]

\* ----------------------------------------------------------- the history
\* What the history says when a reader takes its snapshot of read_tail_.
Committed == { KeyOf(hist[h].tail) : h \in
                 { x \in HistIdx : /\ hist[x].op \in {"append", "update"}
                                   /\ hist[x].st = "committed" } }

DeletedTrue == { hist[h].key : h \in
                   { x \in HistIdx : hist[x].op = "delete" /\ hist[x].ok } }

Updated == { hist[h].key : h \in
               { x \in HistIdx : /\ hist[x].op = "update"
                                 /\ hist[x].st = "committed" } }

Touched == { hist[h].key : h \in
               { x \in HistIdx : hist[x].op \in {"delete", "update"} } }

Snapshot == [com |-> Committed, del |-> DeletedTrue, upd |-> Updated,
             app |-> Committed \ Touched]

\* What a writing call finds when it is made (kept in the history): the key
\* of an update_record is committed and live; the key of a delete_record
\* does not exist yet or carries a tombstone; the append of the key has
\* committed (com).
Live(k) == k \in Committed /\ k \in DOMAIN deleted /\ deleted[k] = 0

Gone(k) == \/ k >= KeyOf(write_tail)
           \/ k \in DOMAIN deleted /\ deleted[k] > 0

\* ------------------------------------------------------------- aggregate
\* The aggregator of scenario 6 (aggregate_ops.h is not part of the sources
\* at hand): sum, with seq_op = comb_op = + and zero = 0.
zero == 0
seq_op(a, b) == a + b
comb_op(a, b) == a + b

Tids == 0 .. MAX_CONCURRENCY - 1
Versions == 0 .. MaxVersion

\* The values an update may pass: the k-th update made, counted from 0 over
\* all chains, passes 2^k, so that a sum tells which updates it holds.
AggValues == {2 ^ nupd}

\* aggregate_node(agg, version, next): a chain is the sequence of its nodes,
\* the head first.
aggregate_node(agg, version) == [value |-> agg, version |-> version]

\* since: "any" once an update of a version <= the one asked for was made
\* after the call; otherwise "above" if an update (of a version above it) was
\* made while the loop of the call ran, and "none" if none was.
RdIdle == [pc |-> "idle", version |-> 0, i |-> 0, val |-> zero, want |-> zero,
           since |-> "none"]

\* What an update of the given version leaves of the record of a running get.
Noted(version) ==
  IF rd.pc = "idle" THEN rd
  ELSE IF version <= rd.version THEN [rd EXCEPT !.since = "any"]
  ELSE IF rd.pc = "fold" /\ rd.since = "none" THEN [rd EXCEPT !.since = "above"]
  ELSE rd

\* A mutant of get_node: the head of the chain, whatever its version.
get_node_head(chain, version) == IF chain = <<>> THEN 0 ELSE 1

\* The loop of get_node, lines 145-155, from node n of the chain on; 0 is
\* nullptr.
RECURSIVE GetNodeLoop(_, _, _, _, _)
GetNodeLoop(chain, n, version, ret, max_version) ==
  IF n > Len(chain) THEN ret
  ELSE IF chain[n].version = version THEN n
  ELSE IF chain[n].version < version /\ chain[n].version > max_version
       THEN GetNodeLoop(chain, n + 1, version, n, chain[n].version)
       ELSE GetNodeLoop(chain, n + 1, version, ret, max_version)

\* get_node(head, version), lines 138-157
get_node(chain, version) ==
  IF chain = <<>> THEN 0 ELSE GetNodeLoop(chain, 1, version, 0, 0)

\* aggregate_list::get(version), lines 93-99
aggregate_list_get(chain, version) ==
  LET req == get_node(chain, version)
  IN IF req # 0 THEN chain[req].value ELSE zero

\* ------------------------------------------------------------------ init
Values  == {<<"a", "a", "b">>, <<"b", "a", "a", "b">>}
Queries == {<<"a", "a", "b", "b", "a", "a">>, <<"b", "a", "a", "b">>}

InitWith(w) ==
  /\ write_tail = 0
  /\ read_tail = 0
  /\ data_log = [pos \in 0 .. LOG_SIZE - 1 |-> JUNK]
  /\ value_offsets = [k \in 0 .. MAX_KEYS - 1 |-> UNSET]
  /\ deleted = [k \in 0 .. MAX_KEYS - 1 |-> UNSET]
  /\ index_log = [g \in Tuples(NGRAM_N) |-> <<>>]
  /\ th = [p \in Procs |-> Idle]
  /\ hist = <<>>
  /\ wl = w
  /\ nops = 0
  /\ nreads = 0
  /\ aggs = [tid \in Tids |-> <<>>]
  /\ rd = RdIdle
  /\ nupd = 0
  /\ args = [tid \in Tids |-> <<>>]

Keys == 0 .. MAX_KEYS

Init == InitWith([values |-> Values, keys |-> Keys, queries |-> Queries])

\* A smaller workload for the claims about the tail words alone: one value,
\* and two keys for update_record and delete_record.
InitW == InitWith([values |-> {<<"a", "a", "b">>}, keys |-> {0, 1},
                   queries |-> {}])

\* A workload that fills the log: a value of three bytes and one of six, of
\* which the second no longer fits once another value is in the log.
InitF == InitWith([values |-> {<<"a", "a", "b">>,
                               <<"a", "a", "b", "a", "a", "b">>},
                   keys |-> {0}, queries |-> {}])

\* A workload with a value longer than the log, of nearly half the range of
\* the offset half of a tail word (a string of nearly 2^31 bytes in the
\* code).
LongValue == [j \in 1 .. WORD \div 2 - 1 |-> "a"]

InitL == InitWith([values |-> {<<"a", "a", "b">>, LongValue},
                   keys |-> {0}, queries |-> {}])

\* A workload of short values: one and two bytes, below the gram width, and
\* one of four bytes.
InitS == InitWith([values |-> {<<"a">>, <<"a", "b">>, <<"b", "a", "a", "b">>},
                   keys |-> {0}, queries |-> {}])

\* ---------------------------------------------------------------- append
\* internal_append, lines 85-98: the fetch-and-add on write_tail_, and the
\* bounds check on what it returned.
InternalAppendClaim(p, op, key, value, flag) ==
  LET tail_increment == increment_tail(Len(value))
      current_tail   == write_tail
      internal_key   == KeyOf(current_tail)
      value_offset   == OffOf(current_tail)
      full == \/ internal_key >= MAX_KEYS
              \/ (value_offset + Len(value)) % WORD >= LOG_SIZE
      h == [op |-> op, tail |-> current_tail, inc |-> tail_increment,
            key |-> key, val |-> value, flag |-> flag,
            com |-> op = "update" /\ key \in Committed, posts |-> {},
            st |-> IF full THEN "thrown" ELSE "claimed", ok |-> FALSE]
  IN /\ CanStart(p)
     /\ nops < MaxOps
     /\ nops' = nops + 1
     /\ write_tail' = atomic_advance_write_tail(tail_increment)
     /\ hist' = Append(hist, h)
     /\ th' = [th EXCEPT ![p] =
                 IF full THEN Idle
                 ELSE [Idle EXCEPT !.pc = "a_off", !.op = op, !.key = key,
                                   !.val = value, !.tail = current_tail,
                                   !.inc = tail_increment,
                                   !.hid = Len(hist) + 1]]
     /\ UNCHANGED <<read_tail, data_log, value_offsets, deleted, index_log,
                    wl, aggvars, nreads>>

\* append(key, value), line 58
Append_(p) ==
  \E v \in wl.values : InternalAppendClaim(p, "append", 0, v, FALSE)

\* value_offsets_->set(internal_key, value_offset), line 104
SetValueOffset(p) ==
  /\ th[p].pc = "a_off"
  /\ value_offsets' =
       SetSlot(value_offsets, KeyOf(th[p].tail), OffOf(th[p].tail))
  /\ th' = [th EXCEPT ![p].pc = "a_del"]
  /\ UNCHANGED <<write_tail, read_tail, data_log, deleted, index_log,
                 hist, wl, aggvars, nops, nreads>>

\* deleted_->set(internal_key, 0), line 105
SetDeleted(p) ==
  /\ th[p].pc = "a_del"
  /\ deleted' = SetSlot(deleted, KeyOf(th[p].tail), 0)
  /\ th' = [th EXCEPT ![p].pc = "a_cpy"]
  /\ UNCHANGED <<write_tail, read_tail, data_log, value_offsets, index_log,
                 hist, wl, aggvars, nops, nreads>>

\* memcpy(data_log_ + value_offset, ...), line 109
CopyValue(p) ==
  /\ th[p].pc = "a_cpy"
  /\ data_log' = Memcpy(data_log, OffOf(th[p].tail), th[p].val)
  /\ th' = [th EXCEPT ![p].pc = "a_idx"]
  /\ UNCHANGED <<write_tail, read_tail, value_offsets, deleted, index_log,
                 hist, wl, aggvars, nops, nreads>>

\* the index loop, lines 112-114; the history keeps the positions posted
AddIndexEntries(p) ==
  LET value_offset == OffOf(th[p].tail)
      value_end    == (value_offset + Len(th[p].val)) % WORD
  IN /\ th[p].pc = "a_idx"
     /\ index_log' = AddOffsets(index_log, data_log, value_offset,
                                LastGramPos(value_end))
     /\ hist' = [hist EXCEPT ![th[p].hid].posts =
                     PostedPositions(value_offset, LastGramPos(value_end))]
     /\ th' = [th EXCEPT ![p].pc =
                 IF th[p].op = "update" THEN "u_inv" ELSE "cas",
               ![p].exp = th[p].tail]
     /\ UNCHANGED <<write_tail, read_tail, data_log, value_offsets, deleted,
                    wl, aggvars, nops, nreads>>

\* ------------------------------------------------------------ the commit
\* atomic_compare_exchange_weak(&read_tail_, &expected, ...) succeeds iff
\* read_tail_ holds the expected value.
CasSucceeds(expected) == read_tail = expected

\* One iteration of the loop of atomic_advance_read_tail, lines 395-398.
\* A failed compare-and-swap loads read_tail_ into expected_append_tail,
\* which the next iteration passes again, and adds the increment to.
AdvanceReadTail(p) ==
  /\ th[p].pc = "cas"
  /\ IF CasSucceeds(th[p].exp)
     THEN /\ read_tail' = (th[p].exp + th[p].inc) % TAIL_MOD
          /\ hist' = Finish(th[p].hid, "committed", TRUE)
          /\ th' = [th EXCEPT ![p] = Idle]
     ELSE /\ th' = [th EXCEPT ![p].exp = read_tail]
          /\ UNCHANGED <<read_tail, hist>>
  /\ UNCHANGED <<write_tail, data_log, value_offsets, deleted, index_log,
                 wl, aggvars, nops, nreads>>

\* --------------------------------------------------------- update_record
\* The token update_record passes to invalidate_key, line 347:
\* current_tail & 0xFFFFFFFF + 1.  The sum binds tighter than the mask and
\* is computed in unsigned int.
UpdateToken(current_tail) == BitAnd(current_tail, (OFF_MASK + 1) % WORD)

\* deleted_->update(k, offset): the conditional write "0 -> offset" on the
\* delete table.  The outcomes, one per value the slot may hold.
DeletedUpdate(k, offset) ==
  { [ok  |-> cur = 0,
     tab |-> IF cur = 0 THEN SetSlot(deleted, k, offset) ELSE deleted]
    : cur \in ReadSlot(deleted, k) }

\* A mutant of invalidate_key: the marker is written whatever it holds.
invalidate_key_blind(internal_key, offset) ==
  { [ok |-> TRUE, tab |-> SetSlot(deleted, internal_key, offset)] }

\* invalidate_key(internal_key, offset), lines 300-302
invalidate_key(internal_key, offset) == DeletedUpdate(internal_key, offset)

\* update_record(internal_key, value), line 341
UpdateRecord(p) ==
  \E k \in wl.keys \ {MAX_KEYS}, v \in wl.values :
    InternalAppendClaim(p, "update", k, v, Live(k))

\* invalidate_key(internal_key, current_tail & 0xFFFFFFFF + 1), line 347
UpdateInvalidate(p) ==
  /\ th[p].pc = "u_inv"
  /\ \E r \in invalidate_key(th[p].key, UpdateToken(th[p].tail)) :
       deleted' = r.tab
  /\ th' = [th EXCEPT ![p].pc = "cas"]
  /\ UNCHANGED <<write_tail, read_tail, data_log, value_offsets, index_log,
                 hist, wl, aggvars, nops, nreads>>

\* --------------------------------------------------------- delete_record
\* The token delete_record passes to invalidate_key, line 324.
DeleteToken(current_tail) == (OffOf(current_tail) + 1) % WORD

\* delete_record, lines 310-321: the fetch-and-add, the bounds check and the
\* test of the key against the key counter it returned.
DeleteRecord(p) ==
  \E k \in wl.keys :
    LET current_tail == write_tail
        full == DeleteToken(current_tail) >= LOG_SIZE
        nokey == k >= KeyOf(current_tail)
        h == [op |-> "delete", tail |-> current_tail,
              inc |-> DEL_INCR, key |-> k, val |-> <<>>, flag |-> Gone(k),
              com |-> k \in Committed, posts |-> {},
              st |-> IF full THEN "thrown"
                     ELSE IF nokey THEN "nocommit" ELSE "claimed",
              ok |-> FALSE]
    IN /\ CanStart(p)
       /\ nops < MaxOps
       /\ nops' = nops + 1
       /\ write_tail' = atomic_advance_write_tail(DEL_INCR)
       /\ hist' = Append(hist, h)
       /\ th' = [th EXCEPT ![p] =
                   IF full \/ nokey THEN Idle
                   ELSE [Idle EXCEPT !.pc = "d_inv", !.op = "delete",
                                     !.key = k, !.tail = current_tail,
                                     !.inc = DEL_INCR,
                                     !.hid = Len(hist) + 1]]
       /\ UNCHANGED <<read_tail, data_log, value_offsets, deleted, index_log,
                      wl, aggvars, nreads>>

\* delete_record, lines 324-332: the tombstone, then the commit or the
\* return of false.
DeleteInvalidate(p) ==
  /\ th[p].pc = "d_inv"
  /\ \E r \in invalidate_key(th[p].key, DeleteToken(th[p].tail)) :
       IF r.ok
       THEN /\ deleted' = r.tab
            /\ th' = [th EXCEPT ![p].pc = "cas", ![p].exp = th[p].tail]
            /\ UNCHANGED hist
       ELSE /\ hist' = Finish(th[p].hid, "nocommit", FALSE)
            /\ th' = [th EXCEPT ![p] = Idle]
            /\ UNCHANGED deleted
  /\ UNCHANGED <<write_tail, read_tail, data_log, value_offsets, index_log,
                 wl, aggvars, nops, nreads>>

\* ------------------------------------------------------------------- get
\* if (delete_tail && read_tail >= delete_tail), lines 142 and 427
IsDeleted(delete_tail, max_off) == delete_tail # 0 /\ max_off >= delete_tail

\* The copy loop of get, lines 151-155: up to n bytes from data_log_ + pos,
\* ending at the first NUL.
RECURSIVE CopyOutcomes(_, _)
CopyOutcomes(pos, n) ==
  IF n = 0 THEN {<<>>}
  ELSE LET rest == CopyOutcomes(pos + 1, n - 1) IN
       UNION { IF b = NUL THEN {<<>>} ELSE { <<b>> \o s : s \in rest }
               : b \in ReadByte(pos) }

\* get, lines 125-132: the snapshot of read_tail_ and the test of the key.
Get(p) ==
  \E k \in wl.keys \ {MAX_KEYS} :
    /\ CanStart(p)
    /\ nreads < MaxReads
    /\ nreads' = nreads + 1
    /\ th' = [th EXCEPT ![p] =
                [Idle EXCEPT !.pc = IF k >= KeyOf(read_tail) THEN "ret"
                                    ELSE "g_del",
                             !.op = "get", !.key = k, !.tail = read_tail,
                             !.pre = Snapshot]]
    /\ UNCHANGED <<shared, hist, wl, aggvars, nops>>

\* get, lines 135-143: the delete marker.
GetDeleted(p) ==
  /\ th[p].pc = "g_del"
  /\ \E delete_tail \in ReadSlot(deleted, th[p].key) :
       th' = [th EXCEPT ![p].pc =
                IF IsDeleted(delete_tail, OffOf(th[p].tail)) THEN "ret"
                ELSE "g_read"]
  /\ UNCHANGED <<shared, hist, wl, aggvars, nops, nreads>>

\* get, lines 146-158: the two offsets and the copy.  The thread keeps start
\* in its field i and end - start in its field size.
GetCopy(p) ==
  LET k == th[p].key
      max_key == KeyOf(th[p].tail)
  IN /\ th[p].pc = "g_read"
     /\ \E start \in ReadSlot(value_offsets, k),
           end \in (IF k + 1 < max_key THEN ReadSlot(value_offsets, k + 1)
                    ELSE {OffOf(th[p].tail)}) :
          \E value \in CopyOutcomes(start, (end - start) % WORD) :
            th' = [th EXCEPT ![p].pc = "ret", ![p].ok = TRUE,
                             ![p].out = value, ![p].i = start,
                             ![p].size = (end - start) % WORD]
     /\ UNCHANGED <<shared, hist, wl, aggvars, nops, nreads>>

\* ---------------------------------------------------------------- search
SubSeq_(s, from, len) == [j \in 1 .. len |-> s[from + j - 1]]

\* ngram_index::get_offsets(gram)
GetOffsets(gram) == IF gram \in DOMAIN index_log THEN index_log[gram] ELSE <<>>

PrefixOffsets(query) == GetOffsets(SubSeq_(query, 1, NGRAM_N))
SuffixOffsets(query) ==
  GetOffsets(SubSeq_(query, Len(query) - NGRAM_N + 1, NGRAM_N))

\* !strncmp(data_log_ + start, str, Len(str)): the outcomes the bytes allow;
\* a byte that was never written, or that lies outside the log, may compare
\* either way.
Strncmp(start, str) ==
  LET unknown(pos) == pos \notin DOMAIN data_log \/ data_log[pos] = JUNK
      at(j) == start + j - 1
  IN { b \in BOOLEAN :
         \/ b /\ \A j \in 1 .. Len(str) :
                   unknown(at(j)) \/ data_log[at(j)] = str[j]
         \/ ~b /\ \E j \in 1 .. Len(str) :
                    unknown(at(j)) \/ data_log[at(j)] # str[j] }

\* The binary search of find_and_insert_key, lines 407-415, over the offset
\* table as the reader sees it.
RECURSIVE BSearch(_, _, _, _)
BSearch(ov, lo, hi, offset) ==
  IF lo < hi
  THEN LET mid == lo + (hi - lo) \div 2 IN
       IF ov[mid] <= offset THEN BSearch(ov, mid + 1, hi, offset)
       ELSE BSearch(ov, lo, mid, offset)
  ELSE lo

OffsetViews(max_key) ==
  LET cand == UNION { ReadSlot(value_offsets, k) : k \in 0 .. max_key - 1 }
  IN { ov \in [0 .. max_key - 1 -> cand] :
         \A k \in 0 .. max_key - 1 : ov[k] \in ReadSlot(value_offsets, k) }

\* find_and_insert_key, lines 403-432: the result sets it may leave.
find_and_insert_key(keys, offset, max_key, max_off) ==
  UNION { LET lo == BSearch(ov, 0, max_key, offset)
              internal_key == (lo - 1) % WORD
          IN { IF IsDeleted(delete_tail, max_off) THEN keys
               ELSE keys \cup {internal_key}
               : delete_tail \in ReadSlot(deleted, internal_key) }
          : ov \in OffsetViews(max_key) }

\* search, lines 167-169: the snapshot of read_tail_.
Search(p) ==
  \E q \in wl.queries :
    /\ CanStart(p)
    /\ nreads < MaxReads
    /\ nreads' = nreads + 1
    /\ th' = [th EXCEPT ![p] =
                [Idle EXCEPT !.pc = "s_lists", !.op = "search", !.val = q,
                             !.tail = read_tail, !.pre = Snapshot]]
    /\ UNCHANGED <<shared, hist, wl, aggvars, nops>>

\* search, lines 174-178: the two posting lists and the choice between them.
SearchLists(p) ==
  /\ th[p].pc = "s_lists"
  /\ th' = [th EXCEPT ![p].pc = "s_size",
                      ![p].br = IF Len(PrefixOffsets(th[p].val))
                                     < Len(SuffixOffsets(th[p].val))
                                THEN "prefix" ELSE "suffix"]
  /\ UNCHANGED <<shared, hist, wl, aggvars, nops, nreads>>

ChosenOffsets(p) ==
  IF th[p].br = "prefix" THEN PrefixOffsets(th[p].val)
  ELSE SuffixOffsets(th[p].val)

\* search, lines 185 and 209: the size of the chosen list.
SearchSize(p) ==
  /\ th[p].pc = "s_size"
  /\ th' = [th EXCEPT ![p].pc = IF Len(ChosenOffsets(p)) = 0 THEN "ret"
                                ELSE "s_scan",
                      ![p].ok = TRUE,
                      ![p].size = Len(ChosenOffsets(p)), ![p].i = 0]
  /\ UNCHANGED <<shared, hist, wl, aggvars, nops, nreads>>

\* The position in data_log_ at which the comparison of a candidate starts:
\* data_log_ + NGRAM_N + off (line 186), data_log_ - prefix_len + off (line
\* 210).
CompareStart(br, off, rest_len) ==
  IF br = "prefix" THEN NGRAM_N + off ELSE off - rest_len

\* One iteration of the scan, lines 187-201 and 211-225.  The thread keeps
\* in its field out the positions at which it has called strncmp.
SearchScan(p) ==
  LET q == th[p].val
      rest_len == Len(q) - NGRAM_N
      off == ChosenOffsets(p)[th[p].i + 1]
      max_key == KeyOf(th[p].tail)
      max_off == OffOf(th[p].tail)
      start == CompareStart(th[p].br, off, rest_len)
      matches == IF th[p].br = "prefix"
                 THEN Strncmp(start, SubSeq_(q, NGRAM_N + 1, rest_len))
                 ELSE Strncmp(start, SubSeq_(q, 1, rest_len))
  IN /\ th[p].pc = "s_scan"
     /\ \E m \in matches :
          \E ks \in (IF off < max_off /\ m
                     THEN find_and_insert_key(th[p].keys, off, max_key, max_off)
                     ELSE {th[p].keys}) :
            th' = [th EXCEPT ![p].keys = ks, ![p].i = th[p].i + 1,
                             ![p].out = IF off < max_off
                                        THEN Append(th[p].out, start)
                                        ELSE th[p].out,
                             ![p].pc = IF th[p].i + 1 < th[p].size
                                       THEN "s_scan" ELSE "ret"]
     /\ UNCHANGED <<shared, hist, wl, aggvars, nops, nreads>>

\* The reading call returns to its caller.
Return(p) ==
  /\ th[p].pc = "ret"
  /\ th' = [th EXCEPT ![p] = Idle]
  /\ UNCHANGED <<shared, hist, wl, aggvars, nops, nreads>>

\* A mutant of seq_update: the node found is overwritten where it stands, and
\* a node is prepended only if none is found.
SeqUpdateInPlace ==
  \E tid \in Tids, value \in AggValues, version \in Versions :
    LET cur_head == aggs[tid]
        req == get_node(cur_head, version)
        old_agg == IF req = 0 THEN zero ELSE cur_head[req].value
        node == aggregate_node(seq_op(old_agg, value), version)
    IN /\ nupd < MaxUpdates
       /\ nupd' = nupd + 1
       /\ aggs' = [aggs EXCEPT ![tid] = IF req = 0 THEN <<node>> \o cur_head
                                        ELSE [cur_head EXCEPT ![req] = node]]
       /\ args' = [args EXCEPT ![tid] = IF req = 0 THEN <<value>> \o @
                                        ELSE [@ EXCEPT ![req] = @ + value]]
       /\ rd' = Noted(version)
       /\ UNCHANGED <<shared, th, hist, wl, nops, nreads>>

\* ----------------------------------------------------- aggregate calls
\* aggregate::seq_update(thread_id, value, version), lines 122-129 and 180-182
SeqUpdate ==
  \E tid \in Tids, value \in AggValues, version \in Versions :
    LET cur_head == aggs[tid]
        req == get_node(cur_head, version)
        old_agg == IF req = 0 THEN zero ELSE cur_head[req].value
        node == aggregate_node(seq_op(old_agg, value), version)
    IN /\ nupd < MaxUpdates
       /\ nupd' = nupd + 1
       /\ aggs' = [aggs EXCEPT ![tid] = <<node>> \o cur_head]
       /\ args' = [args EXCEPT ![tid] = <<value>> \o @]
       /\ rd' = Noted(version)
       /\ UNCHANGED <<shared, th, hist, wl, nops, nreads>>

\* aggregate::comb_update(thread_id, value, version), lines 107-114 and
\* 184-186
CombUpdate ==
  \E tid \in Tids, value \in AggValues, version \in Versions :
    LET cur_head == aggs[tid]
        req == get_node(cur_head, version)
        old_agg == IF req = 0 THEN zero ELSE cur_head[req].value
        node == aggregate_node(comb_op(old_agg, value), version)
    IN /\ nupd < MaxUpdates
       /\ nupd' = nupd + 1
       /\ aggs' = [aggs EXCEPT ![tid] = <<node>> \o cur_head]
       /\ args' = [args EXCEPT ![tid] = <<value>> \o @]
       /\ rd' = Noted(version)
       /\ UNCHANGED <<shared, th, hist, wl, nops, nreads>>

\* The node of a chain with the greatest version <= version, the newest of
\* them if several carry that version; 0 if there is none.
GreatestLE(chain, version) ==
  LET le == { n \in 1 .. Len(chain) : chain[n].version <= version }
  IN IF le = {} THEN 0
     ELSE CHOOSE n \in le :
            \A m \in le : \/ chain[m].version < chain[n].version
                          \/ chain[m].version = chain[n].version /\ n <= m

ValueLE(chain, version) ==
  LET n == GreatestLE(chain, version)
  IN IF n = 0 THEN zero ELSE chain[n].value

\* The loop of aggregate::get, lines 189-192, over the chains from i on, run
\* in one piece.
RECURSIVE AggregateFold(_, _, _)
AggregateFold(i, version, val) ==
  IF i >= MAX_CONCURRENCY THEN val
  ELSE AggregateFold(i + 1, version,
                     comb_op(val, aggregate_list_get(aggs[i], version)))

\* aggregate::get(version), lines 188-193
aggregate_get(version) == AggregateFold(0, version, zero)

\* aggregate::get(version), line 189
AggGet ==
  \E version \in Versions :
    /\ rd.pc = "idle"
    /\ rd' = [RdIdle EXCEPT !.pc = "fold", !.version = version]
    /\ UNCHANGED <<shared, th, hist, wl, nops, nreads, aggs, nupd, args>>

\* One iteration of the loop of aggregate::get, lines 190-191: the load of
\* the head of chain i and the search from it.  want is what the fold gives
\* with the greatest-<=-version node of the chain as loaded.
AggGetChain ==
  /\ rd.pc = "fold"
  /\ rd' = [rd EXCEPT
              !.val = comb_op(rd.val,
                              aggregate_list_get(aggs[rd.i], rd.version)),
              !.want = comb_op(rd.want, ValueLE(aggs[rd.i], rd.version)),
              !.i = rd.i + 1,
              !.pc = IF rd.i + 1 < MAX_CONCURRENCY THEN "fold" ELSE "done"]
  /\ UNCHANGED <<shared, th, hist, wl, nops, nreads, aggs, nupd, args>>

\* aggregate::get returns val, line 192
AggGetReturn ==
  /\ rd.pc = "done"
  /\ rd' = RdIdle
  /\ UNCHANGED <<shared, th, hist, wl, nops, nreads, aggs, nupd, args>>

NextAgg ==
  \/ SeqUpdate
  \/ CombUpdate
  \/ AggGet
  \/ AggGetChain
  \/ AggGetReturn

SpecAgg == InitW /\ [][NextAgg]_vars

Next ==
  \E p \in Procs :
    \/ Append_(p)
    \/ UpdateRecord(p)
    \/ DeleteRecord(p)
    \/ SetValueOffset(p)
    \/ SetDeleted(p)
    \/ CopyValue(p)
    \/ AddIndexEntries(p)
    \/ UpdateInvalidate(p)
    \/ DeleteInvalidate(p)
    \/ AdvanceReadTail(p)
    \/ Get(p)
    \/ GetDeleted(p)
    \/ GetCopy(p)
    \/ Search(p)
    \/ SearchLists(p)
    \/ SearchSize(p)
    \/ SearchScan(p)
    \/ Return(p)

Spec == Init /\ [][Next]_vars

\* The writing calls alone.
NextW ==
  \E p \in Procs :
    \/ Append_(p)
    \/ UpdateRecord(p)
    \/ DeleteRecord(p)
    \/ SetValueOffset(p)
    \/ SetDeleted(p)
    \/ CopyValue(p)
    \/ AddIndexEntries(p)
    \/ UpdateInvalidate(p)
    \/ DeleteInvalidate(p)
    \/ AdvanceReadTail(p)

SpecW == InitW /\ [][NextW]_vars

SpecF == InitF /\ [][NextW]_vars

SpecL == InitL /\ [][NextW]_vars

SpecS == InitS /\ [][NextW]_vars

\* A thread that is inside a call keeps taking steps.
Step(p) ==
  \/ SetValueOffset(p)
  \/ SetDeleted(p)
  \/ CopyValue(p)
  \/ AddIndexEntries(p)
  \/ UpdateInvalidate(p)
  \/ DeleteInvalidate(p)
  \/ AdvanceReadTail(p)

FairSpecW == Init /\ [][NextW]_vars /\ \A p \in Procs : WF_vars(Step(p))

\* ------------------------------------------------------------ properties
Writes == { h \in HistIdx : hist[h].op \in {"append", "update"} }

ClaimedKey(h) == KeyOf(hist[h].tail)

\* The byte range [off, off+len) a claim was granted.
ClaimedRange(h) ==
  LET len == IF hist[h].op = "delete" THEN 1 ELSE Len(hist[h].val)
  IN OffOf(hist[h].tail) .. OffOf(hist[h].tail) + len - 1

\* No call has failed with StoreFull, and no claim reaches beyond the log.
NoStoreFull ==
  \A h \in HistIdx :
    /\ hist[h].st # "thrown"
    /\ OffOf(hist[h].tail) + OffOf(hist[h].inc) <= LOG_SIZE

\* The value appended for key k.
ValueOf(k) == hist[CHOOSE h \in Writes : ClaimedKey(h) = k].val

\* C1: with no StoreFull, each append/update call obtains from its
\* fetch-and-add a key no other call obtains and a byte range disjoint from
\* every other call's range, and the keys handed out are 0..C-1.
C1_ExclusiveClaims ==
  NoStoreFull =>
    /\ \A a, b \in Writes : a # b => ClaimedKey(a) # ClaimedKey(b)
    /\ \A a, b \in HistIdx : a # b => ClaimedRange(a) \cap ClaimedRange(b) = {}
    /\ { ClaimedKey(h) : h \in Writes } = 0 .. Cardinality(Writes) - 1
    /\ \A p \in Procs : th[p].hid # 0 => th[p].tail = hist[th[p].hid].tail

\* Two appends in flight at once, neither committed, holding keys 0 and 1.
C1_Witness ==
  /\ NoStoreFull
  /\ \E p, q \in Procs :
       /\ p # q
       /\ th[p].op \in {"append", "update"} /\ th[q].op \in {"append", "update"}
       /\ th[p].pc = "cas" /\ th[q].pc = "cas"
       /\ KeyOf(th[p].tail) = 0 /\ KeyOf(th[q].tail) = 1

\* C2: commits on read_tail happen in the order of the claims on
\* write_tail: a later claim is never committed while an earlier one is not.
C2_CommitInClaimOrder ==
  \A a, b \in HistIdx :
    a < b /\ hist[b].st = "committed" => hist[a].st = "committed"

\* Readers that have finished and still hold their result.
Got(p) == th[p].pc = "ret" /\ th[p].op = "get"
Searched(p) == th[p].pc = "ret" /\ th[p].op = "search"

\* C3: readers see only committed writes: a get that succeeds, and every key
\* in a search result, is a key below the key counter of the snapshot whose
\* writer had committed when the snapshot was taken.
C3_ReadersSeeCommitted ==
  \A p \in Procs :
    /\ Got(p) /\ th[p].ok =>
         th[p].key < KeyOf(th[p].tail) /\ th[p].key \in th[p].pre.com
    /\ Searched(p) =>
         \A k \in th[p].keys : k < KeyOf(th[p].tail) /\ k \in th[p].pre.com

\* C4: with appends only, a get of key i that starts after the append of
\* key i has returned succeeds and returns exactly the bytes appended.
C4_GetReturnsAppended ==
  (\A h \in HistIdx : hist[h].op = "append") =>
    \A p \in Procs :
      Got(p) /\ th[p].key \in th[p].pre.com =>
        th[p].ok /\ th[p].out = ValueOf(th[p].key)

\* C5: once delete_record(i) has returned true, a get(i) that starts
\* afterwards misses and a search that starts afterwards excludes i.
C5_DeleteIsFinal ==
  \A p \in Procs :
    /\ Got(p) /\ th[p].key \in th[p].pre.del => ~th[p].ok
    /\ Searched(p) => th[p].keys \cap th[p].pre.del = {}

\* The committed update_record calls that were made on a live committed key.
LiveUpdates(upto) ==
  { h \in HistIdx : /\ hist[h].op = "update" /\ hist[h].flag
                    /\ hist[h].st = "committed"
                    /\ hist[h].key \in upto }

\* C6: update_record(i, V') on a live committed key behaves as delete(i)
\* followed by append(V'): it returns the key a bare append would have
\* received, and once it has returned get(i) misses and search excludes i.
C6_UpdateDeletesOldKey ==
  /\ \A h \in LiveUpdates(0 .. MAX_KEYS) :
       ClaimedKey(h) = Cardinality({ a \in Writes : a < h })
  /\ \A p \in Procs :
       /\ Got(p) /\ th[p].key \in th[p].pre.upd
            /\ LiveUpdates({th[p].key}) # {} => ~th[p].ok
       /\ Searched(p) =>
            \A k \in th[p].keys \cap th[p].pre.upd : LiveUpdates({k}) = {}

\* C7: search is complete: a search for V that starts after the append of V
\* has committed, with no delete_record or update_record on its key,
\* returns the key of that value.
C7_SearchComplete ==
  \A p \in Procs :
    Searched(p) =>
      \A k \in th[p].pre.app \ Touched :
        ValueOf(k) = th[p].val => k \in th[p].keys

\* Q occurs in V as a substring.
Contains(V, Q) ==
  \E s \in 0 .. Len(V) - Len(Q) :
    \A j \in 1 .. Len(Q) : V[s + j] = Q[j]

\* C8: search is sound: every key in the result of search(Q) is a committed
\* key, not deleted when the search started, whose own value contains Q.
C8_SearchSound ==
  \A p \in Procs :
    Searched(p) =>
      \A k \in th[p].keys :
        /\ k \in th[p].pre.com
        /\ k \notin th[p].pre.del
        /\ Contains(ValueOf(k), th[p].val)

StatusOf(h) == IF h \in HistIdx THEN hist[h].st ELSE "none"

\* C9: with no StoreFull, every call of append, update_record and
\* delete_record eventually returns, and by then every strictly earlier claim
\* has committed.
C9_CallsReturnEarlierCommit ==
  \A h \in 1 .. MaxOps :
    (h \in HistIdx) ~>
      \/ ~NoStoreFull
      \/ /\ StatusOf(h) \in {"committed", "nocommit"}
         /\ \A a \in 1 .. h - 1 : StatusOf(a) = "committed"

\* Every call eventually returns or throws (the loop of
\* atomic_advance_read_tail succeeds once read_tail_ stays put for one
\* iteration).
CallsReturn ==
  \A h \in 1 .. MaxOps :
    (h \in HistIdx) ~> (StatusOf(h) \in {"committed", "nocommit", "thrown"})

\* C10: delete_record on a key that does not exist yet, or that already
\* carries a tombstone, returns false and never throws.
C10_DeleteReturnsFalse ==
  \A h \in HistIdx :
    hist[h].op = "delete" /\ hist[h].flag =>
      hist[h].st # "thrown" /\ ~hist[h].ok

\* The byte offset at which the value of a claim ends.
OffsetEnd(h) == OffOf(hist[h].tail) + Len(hist[h].val)

\* C11: an append whose value ends at or below byte offset LOG_SIZE (the
\* exact fit included) and whose key is below MAX_KEYS succeeds, and an
\* append whose value would end beyond LOG_SIZE fails with StoreFull.
C11_StoreFullBoundary ==
  \A h \in Writes :
    hist[h].st = "thrown" <=>
      (ClaimedKey(h) >= MAX_KEYS \/ OffsetEnd(h) > LOG_SIZE)

\* C12: aggregate::get(version) returns the comb_op fold, over all chains,
\* of the value of the node with the greatest version' <= version of each
\* chain (zero for a chain without one), for all versions >= 0, nodes of
\* version 0 included.
C12_GetFoldsGreatestLE ==
  rd.pc = "done" => rd.val = rd.want

\* The delete_record(k) calls made after the append of key k had committed.
DeletesOf(k) ==
  { h \in HistIdx : hist[h].op = "delete" /\ hist[h].key = k /\ hist[h].com }

Returned(h) == hist[h].st \in {"committed", "nocommit"}

\* The delete_record call whose token the marker of key k holds.
Winners(k) ==
  { h \in HistIdx : /\ hist[h].op = "delete" /\ hist[h].key = k
                    /\ hist[h].st \in {"claimed", "committed"}
                    /\ k \in DOMAIN deleted
                    /\ deleted[k] = DeleteToken(hist[h].tail) }

\* C13: among the delete_record(i) calls on a key whose append has
\* committed at most one returns true; every other one returns false, and
\* D[i] holds the token of the winner.
C13_OneDeleteWins ==
  \A k \in 0 .. MAX_KEYS - 1 :
    /\ Cardinality({ h \in DeletesOf(k) : hist[h].ok }) <= 1
    /\ \A h \in DeletesOf(k) :
         Returned(h) =>
           /\ Cardinality(Winners(k)) = 1
           /\ hist[h].ok <=> h \in Winners(k)

\* Two delete_record calls on the same committed key have run at the same
\* time: the one that claimed first holds the tombstone and is about to
\* commit, the other has returned false.
C13_Witness ==
  \E k \in 0 .. MAX_KEYS - 1 : \E w, l \in DeletesOf(k) :
    /\ w < l
    /\ hist[w].st = "claimed" /\ w \in Winners(k)
    /\ hist[l].st = "nocommit"
    /\ \E p \in Procs : th[p].hid = w /\ th[p].pc = "cas"

\* No append, update_record or delete_record is in flight.
Quiescent == \A p \in Procs : th[p].pc = "idle"

\* get_gap(), lines 372-374
get_gap == (write_tail - read_tail) % TAIL_MOD

\* C14: a delete_record that loses the conditional write on the marker
\* still advances read_tail by DEL_INCR before it returns false: with no
\* StoreFull, and every delete_record made on a key below the key counter,
\* the gap is 0 whenever no call is in flight.
C14_LosingDeleteCommits ==
  ( /\ Quiescent
    /\ NoStoreFull
    /\ \A h \in HistIdx :
         hist[h].op = "delete" => hist[h].key < KeyOf(hist[h].tail) )
  => get_gap = 0

\* The bytes of the log, and the keys, taken by the claims made before claim
\* h that did not fail with StoreFull.
RECURSIVE UsedBefore(_)
UsedBefore(h) ==
  IF h <= 1 THEN 0
  ELSE UsedBefore(h - 1)
       + (IF hist[h - 1].st = "thrown" THEN 0 ELSE OffOf(hist[h - 1].inc))

KeysBefore(h) ==
  Cardinality({ a \in Writes : a < h /\ hist[a].st # "thrown" })

\* Claim h fits: behind what the calls before it really took, its bytes end
\* below LOG_SIZE, and its key, if it takes one, is below MAX_KEYS.
Fits(h) ==
  /\ UsedBefore(h) + OffOf(hist[h].inc) < LOG_SIZE
  /\ h \in Writes => KeysBefore(h) < MAX_KEYS

\* C15: an append that fails with StoreFull is harmless: a later call that
\* fits in what is left of the log does not fail with StoreFull.
C15_StoreFullHarmless ==
  \A h \in HistIdx :
    ( /\ Fits(h)
      /\ \E a \in Writes : a < h /\ hist[a].st = "thrown" )
    => hist[h].st # "thrown"

\* C16: read_tail is componentwise at most write_tail: the key counter and
\* the byte offset of write_tail are >= those of read_tail.
C16_ReadTailBelowWriteTail ==
  /\ KeyOf(write_tail) >= KeyOf(read_tail)
  /\ OffOf(write_tail) >= OffOf(read_tail)

\* Neither tail word decreases.
TailsNeverDecrease ==
  [][write_tail' >= write_tail /\ read_tail' >= read_tail]_vars

\* Every delete_record(k) of the history was made after the append of key k
\* had committed.
DeletedWhenCommitted(k) ==
  \A h \in HistIdx : hist[h].op = "delete" /\ hist[h].key = k => hist[h].com

\* C17: a delete of a committed key becomes visible exactly at its advance
\* of read_tail: a get(i) whose snapshot passes the key test treats i as
\* deleted iff a delete_record(i) had committed when the snapshot was
\* taken, and a search whose snapshot follows that commit excludes i.
C17_DeleteVisibleAtCommit ==
  \A p \in Procs :
    /\ ( /\ Got(p)
         /\ th[p].key \in th[p].pre.com
         /\ th[p].key < KeyOf(th[p].tail)
         /\ DeletedWhenCommitted(th[p].key) )
       => (th[p].ok <=> th[p].key \notin th[p].pre.del)
    /\ Searched(p) =>
         \A k \in th[p].keys :
           DeletedWhenCommitted(k) => k \notin th[p].pre.del

\* The claim of the append or update_record that received key k.
WriterOf(k) == CHOOSE h \in Writes : ClaimedKey(h) = k

\* C18: the byte range get reads for a committed key, from O[i] to O[i+1]
\* or to the offset of read_tail, is exactly the range the append of the
\* key claimed, also with delete_record calls between the appends.
C18_GetReadsClaimedRange ==
  \A p \in Procs :
    Got(p) /\ th[p].ok /\ th[p].key \in th[p].pre.com =>
      th[p].i .. th[p].i + th[p].size - 1 = ClaimedRange(WriterOf(th[p].key))

\* What offset-to-key resolution is to leave for an offset owned by key k
\* under the snapshot offset max_off.
Resolved(k, max_off) ==
  IF deleted[k] # 0 /\ max_off >= deleted[k] THEN {} ELSE {k}

\* C19: for a snapshot of read_tail, the offset table is non-decreasing over
\* the committed keys, and every offset below max_off inside the bytes of a
\* committed value resolves to the key whose append claimed it, which is
\* dropped iff D[key] # 0 and max_off >= D[key].
C19_OffsetResolvesToOwner ==
  LET max_key == KeyOf(read_tail)
      max_off == OffOf(read_tail)
  IN /\ \A k \in Committed :
          k + 1 \in Committed => value_offsets[k] <= value_offsets[k + 1]
     /\ \A k \in Committed : \A o \in ClaimedRange(WriterOf(k)) :
          o < max_off =>
            find_and_insert_key({}, o, max_key, max_off)
              = {Resolved(k, max_off)}

\* C20: an append of a value of length m at offset o publishes one posting
\* for each position o + k with k in [0, m - N], each inside the value's own
\* byte range, and none if m < N, wherever in the log the value lies.
C20_PostingsPerPosition ==
  \A h \in Writes :
    hist[h].st = "committed" =>
      hist[h].posts =
        { OffOf(hist[h].tail) + k : k \in 0 .. Len(hist[h].val) - NGRAM_N }

\* C21: in the scan of the suffix-gram posting list a candidate is compared
\* only if its offset is >= q - N: no comparison starts before offset 0 of
\* the byte log.
C21_SuffixScanInsideLog ==
  \A p \in Procs :
    th[p].op = "search" /\ th[p].br = "suffix" =>
      \A j \in 1 .. Len(th[p].out) : th[p].out[j] >= 0

\* Every update carried a version >= 1, and each chain received its updates
\* in non-decreasing version order (the head is the newest node).
Ordered ==
  \A tid \in Tids : \A n \in 1 .. Len(aggs[tid]) :
    /\ aggs[tid][n].version >= 1
    /\ n < Len(aggs[tid]) => aggs[tid][n].version >= aggs[tid][n + 1].version

\* The sum of the values passed by the updates of version <= v: those of
\* nodes n and older of chain tid, and those of all chains from tid on.
RECURSIVE ChainSum(_, _, _)
ChainSum(tid, n, v) ==
  IF n > Len(aggs[tid]) THEN 0
  ELSE (IF aggs[tid][n].version <= v THEN args[tid][n] ELSE 0)
       + ChainSum(tid, n + 1, v)

RECURSIVE SumFrom(_, _)
SumFrom(tid, v) ==
  IF tid >= MAX_CONCURRENCY THEN 0 ELSE ChainSum(tid, 1, v) + SumFrom(tid + 1, v)

SumUpTo(v) == SumFrom(0, v)

\* Every update made since the running get was called has a version above
\* the version the get asks for.
OnlyLaterVersions == rd.since # "any"

\* C22: with the sum aggregator, all versions >= 1 and each chain updated in
\* non-decreasing version order, get(v) is the sum of the values of all
\* completed updates of version <= v, for every v >= 0: for a get run in
\* one piece in any state, and for a get that ran chain by chain beside
\* updates of later versions.
C22_GetIsSumOfUpdates ==
  Ordered =>
    /\ \A v \in Versions : aggregate_get(v) = SumUpTo(v)
    /\ rd.pc = "done" /\ OnlyLaterVersions => rd.val = SumUpTo(rd.version)

\* Both chains hold updates, three in all, one of them of a version above the
\* one asked for and made while the get ran, and the get has returned the sum
\* of the others.
C22_Witness ==
  /\ Ordered
  /\ nupd = MaxUpdates
  /\ \A tid \in Tids : aggs[tid] # <<>>
  /\ rd.pc = "done" /\ rd.since = "above"
  /\ \E tid \in Tids : aggs[tid][1].version > rd.version
  /\ rd.val = SumUpTo(rd.version) /\ rd.val > 0
  /\ rd.val < SumUpTo(MaxVersion)

\* The step is an update that puts a node of a version above v at the head
\* of a chain.
LaterUpdate(v) ==
  /\ nupd' # nupd
  /\ \E tid \in Tids :
       /\ aggs'[tid] # aggs[tid]
       /\ aggs'[tid][1].version > v

\* C23: aggregate reads are stable snapshots.  An update only prepends a
\* node and leaves every existing node as it was; an update of a version
\* above v, on any chain, does not change what get(v) gives; and a get(v)
\* that ran beside updates, all of versions above v, has returned the value
\* get(v) gives once they are made.
C23_StableSnapshot ==
  [][ /\ \A tid \in Tids :
           aggs'[tid] = aggs[tid] \/ Tail(aggs'[tid]) = aggs[tid]
      /\ \A v \in Versions :
           /\ LaterUpdate(v) => aggregate_get(v)' = aggregate_get(v)
           /\ rd'.pc = "done" /\ rd'.version = v /\ rd'.since # "any" =>
                rd'.val = aggregate_get(v)' ]_vars

\* A get has returned a value other than zero after updates of versions
\* above the one it asked for were made on every chain, one of them at least
\* while it ran.
C23_Witness ==
  /\ rd.pc = "done" /\ rd.since = "above"
  /\ \A tid \in Tids : aggs[tid] # <<>> /\ aggs[tid][1].version > rd.version
  /\ rd.val > 0 /\ rd.val = aggregate_get(rd.version)
====
